---- MODULE Spec2Model ----
(***************************************************************************)
(* Lifecycle of a Server node (src/src/server/server.py): the startup      *)
(* sequence of Server.run, the readiness event, run_in_background, the     *)
(* teardown sequence of Server.shutdown and the ModuleAnnouncerThread.     *)
(* Threads: the node's own thread (run), the embedder (run_in_background   *)
(* and shutdown calls), the announcer thread, and the handler processes.   *)
(***************************************************************************)
EXTENDS Integers, Sequences, FiniteSets, TLC

\* ---------------------------------------------------------------- bounds
NumHandlers == 2        \* num_connection_handlers of the modelled node
MaxBlocks == 1          \* the hosted-block set is 0..n-1 for some n <= MaxBlocks
MaxShutdownCalls == 1   \* shutdown() calls made by the embedder
MaxTime == 2            \* the clock runs from 0 to MaxTime
MaxPeriod == 2          \* update_period is one of 1..MaxPeriod
MaxExpiration == 1      \* an explicit expiration is one of 1..MaxExpiration
MaxNumBlocks == 2       \* a num_blocks argument of create is one of 0..MaxNumBlocks
MaxStrLen == 4          \* a block_indices argument of create has at most MaxStrLen characters

\* hivemind's MAX_DHT_TIME_DISCREPANCY_SECONDS, imported by server.py
MAX_DHT_TIME_DISCREPANCY_SECONDS == 3

\* Python's None as the value of an omitted Optional argument
None == 0 - 1

Handlers == 1..NumHandlers
Callers == {"run", "emb"}   \* who invokes shutdown(): run()'s finally, the embedder

VARIABLES
    module_backends,  \* set of hosted block ids (read-only after construction)
    dht_alive,        \* self.dht.is_alive()
    ready,            \* self.runtime.ready (Server.ready)
    run_pc,           \* position of the node's thread inside Server.run
    run_i,            \* index of the handler the for-loop of run is at
    run_exc,          \* an exception of runtime.run is pending in the finally
    h_state,          \* per handler process: "new", "alive", "terminated"
    h_ready,          \* per handler readiness future: "pending", "resolved", "failed"
    ann_pc,           \* position of the announcer thread
    ann_stop,         \* dht_handler_thread.stop (threading.Event)
    engine_down,      \* runtime.shutdown() has been called
    emb_pc,           \* position of the embedder inside run_in_background
    sd_pc,            \* per caller: position inside Server.shutdown
    sd_i,             \* per caller: index of the handler the for-loop of shutdown is at
    sd_trace,         \* per caller: statements the current shutdown() invocation executed
    sd_calls,         \* number of shutdown() calls made by the embedder
    clean_start,      \* the embedder's first shutdown() came after start returned ready
    term_count,       \* per handler: number of terminate() calls observed
    ann_count,        \* number of announcement attempts (declare_active_modules calls)
    ann_last,         \* outcome of the latest announcement attempt, "none" before it
    ann_joined,       \* a join() on the announcer thread has returned
    start_count,      \* per handler: number of process.start() calls
    update_period,    \* ModuleAnnouncerThread.update_period
    exp_arg,          \* the expiration argument of the constructors, or None
    expiration,       \* ModuleAnnouncerThread.expiration
    now,              \* get_dht_time() as of the latest step that depends on it
    ann_deadline,     \* the time at which the announcer's stop.wait times out
    reg_expire,       \* expire_at of the node's record in the registry, 0 without one
    last_ok,          \* time of the latest announcement the registry stored
    cr_pc,            \* position inside Server.create, "idle" when it is not in use
    cr_num_blocks,    \* create's num_blocks argument, or None
    cr_block_indices, \* create's block_indices argument, a string or NoString
    cr_dht,           \* create has constructed the DHT and the memory cache
    cr_blocks,        \* create's block_indices range, as a set
    cr_error          \* the exception that left create, "none" without one

vars == <<module_backends, dht_alive, ready, run_pc, run_i, run_exc, h_state,
          h_ready, ann_pc, ann_stop, engine_down, emb_pc, sd_pc, sd_i,
          sd_trace, sd_calls, clean_start, term_count, ann_count, ann_last,
          ann_joined, start_count, update_period, exp_arg, expiration, now,
          ann_deadline, reg_expire, last_ok, cr_pc, cr_num_blocks,
          cr_block_indices, cr_dht, cr_blocks, cr_error>>

nodeVars == <<module_backends, dht_alive, ready, run_pc, run_i, run_exc>>
handlerVars == <<h_state, h_ready, term_count>>
annVars == <<ann_pc, ann_stop, ann_count, ann_last>>
sdVars == <<sd_pc, sd_i, sd_trace, sd_calls, clean_start, engine_down>>
cfgVars == <<update_period, exp_arg, expiration>>
timeVars == <<now, ann_deadline, reg_expire, last_ok>>
createVars == <<cr_pc, cr_num_blocks, cr_block_indices, cr_dht, cr_blocks, cr_error>>

\* ------------------------------------------------ external collaborators
\* outcome of one declare_active_modules call: stored, store failed (reported
\* in the returned value, which run ignores), or an exception is raised
DeclareOutcomes == {"ok", "failed", "raised"}

\* handler.terminate(); handler.join(): safe whatever the run state of the slot
Terminated(st) == IF st = "alive" THEN "terminated" ELSE st

\* None as the value of an omitted Optional[str] argument; strings are
\* sequences of characters
NoString == <<"None">>

Max(a, b) == IF a >= b THEN a ELSE b

ExpirationDoubledPeriod(period, arg) ==
    IF arg = None THEN 2 * period ELSE arg

\* ModuleAnnouncerThread.__init__: the expiration the announcer uses
AnnouncerExpiration(period, arg) ==
    IF arg = None
    THEN Max(2 * period, MAX_DHT_TIME_DISCREPANCY_SECONDS)
    ELSE arg

\* ------------------------------------------------------------------ Init
\* a constructed Server (start=False) and its ModuleAnnouncerThread, given
\* update_period and the expiration argument
NodeInit ==
    /\ module_backends \in {0..(n - 1) : n \in 0..MaxBlocks}
    /\ dht_alive \in BOOLEAN
    /\ ready = FALSE
    /\ run_pc = "created"
    /\ run_i = 1
    /\ run_exc = FALSE
    /\ h_state = [h \in Handlers |-> "new"]
    /\ h_ready = [h \in Handlers |-> "pending"]
    /\ ann_pc = "unstarted"
    /\ ann_stop = FALSE
    /\ engine_down = FALSE
    /\ emb_pc = "init"
    /\ sd_pc = [c \in Callers |-> "idle"]
    /\ sd_i = [c \in Callers |-> 1]
    /\ sd_trace = [c \in Callers |-> <<>>]
    /\ sd_calls = 0
    /\ clean_start = FALSE
    /\ term_count = [h \in Handlers |-> 0]
    /\ ann_count = 0
    /\ ann_last = "none"
    /\ ann_joined = FALSE
    /\ start_count = [h \in Handlers |-> 0]
    /\ expiration = AnnouncerExpiration(update_period, exp_arg)
    /\ now = 0
    /\ ann_deadline = 0
    /\ reg_expire = 0
    /\ last_ok = 0
    /\ cr_pc = "idle"
    /\ cr_num_blocks = None
    /\ cr_block_indices = NoString
    /\ cr_dht = FALSE
    /\ cr_blocks = {}
    /\ cr_error = "none"

\* the node with update_period 1 and the expiration omitted
Init ==
    /\ update_period = 1
    /\ exp_arg = None
    /\ NodeInit

\* the node with hosted blocks, for every update_period and expiration argument
LeaseInit ==
    /\ update_period \in 1..MaxPeriod
    /\ exp_arg \in {None} \cup 1..MaxExpiration
    /\ NodeInit
    /\ module_backends # {}

\* ------------------------------------------------------ run_in_background
\* self.start(); the caller then waits on ready if await_ready
StartCall ==
    /\ emb_pc = "init"
    /\ run_pc = "created"
    /\ \E await_ready \in BOOLEAN :
         emb_pc' = IF await_ready THEN "waiting" ELSE "returned"
    /\ run_pc' = "dht"
    /\ UNCHANGED <<module_backends, dht_alive, ready, run_i, run_exc>>
    /\ UNCHANGED <<handlerVars, annVars, sdVars>>
    /\ UNCHANGED <<ann_joined, start_count, cfgVars, timeVars, createVars>>

\* self.ready.wait(timeout) returned True
StartReady ==
    /\ emb_pc = "waiting"
    /\ ready
    /\ emb_pc' = "ready"
    /\ UNCHANGED <<nodeVars, handlerVars, annVars, sdVars>>
    /\ UNCHANGED <<ann_joined, start_count, cfgVars, timeVars, createVars>>

StartTimeoutAborts ==
    /\ emb_pc = "waiting"
    /\ ~ready
    /\ emb_pc' = "timeout"
    /\ run_pc' = "aborted"
    /\ UNCHANGED <<module_backends, dht_alive, ready, run_i, run_exc>>
    /\ UNCHANGED <<handlerVars, annVars, sdVars>>
    /\ UNCHANGED <<ann_joined, start_count, cfgVars, timeVars, createVars>>

\* self.ready.wait(timeout) returned False: raise TimeoutError
StartTimeout ==
    /\ emb_pc = "waiting"
    /\ ~ready
    /\ emb_pc' = "timeout"
    /\ UNCHANGED <<nodeVars, handlerVars, annVars, sdVars>>
    /\ UNCHANGED <<ann_joined, start_count, cfgVars, timeVars, createVars>>

\* ------------------------------------------------------------- Server.run
\* if not self.dht.is_alive(): self.dht.run_in_background(await_ready=True)
RunEnsureDht ==
    /\ run_pc = "dht"
    /\ dht_alive' = TRUE
    /\ run_pc' = "announcer"
    /\ UNCHANGED <<module_backends, ready, run_i, run_exc>>
    /\ UNCHANGED <<handlerVars, annVars, sdVars, emb_pc>>
    /\ UNCHANGED <<ann_joined, start_count, cfgVars, timeVars, createVars>>

RunStartAnnouncerSkips ==
    /\ run_pc = "announcer"
    /\ run_pc' = "hstart"
    /\ run_i' = 1
    /\ UNCHANGED <<module_backends, dht_alive, ready, run_exc>>
    /\ UNCHANGED <<handlerVars, annVars, sdVars, emb_pc>>
    /\ UNCHANGED <<ann_joined, start_count, cfgVars, timeVars, createVars>>

\* if self.module_backends: self.dht_handler_thread.start()
\* Thread.start returns once the new thread runs; the body of
\* ModuleAnnouncerThread.run executes in that thread
RunStartAnnouncer ==
    /\ run_pc = "announcer"
    /\ ann_pc' = IF module_backends # {} THEN "first" ELSE ann_pc
    /\ run_pc' = "hstart"
    /\ run_i' = 1
    /\ UNCHANGED <<module_backends, dht_alive, ready, run_exc>>
    /\ UNCHANGED <<handlerVars, ann_stop, ann_count, ann_last, sdVars, emb_pc>>
    /\ UNCHANGED <<ann_joined, start_count, cfgVars, timeVars, createVars>>

RunStartHandlerAll ==
    /\ run_pc = "hstart"
    /\ h_state' = [h \in Handlers |-> IF h >= run_i THEN "alive" ELSE h_state[h]]
    /\ start_count' = [h \in Handlers |->
                         IF h >= run_i THEN start_count[h] + 1 ELSE start_count[h]]
    /\ run_pc' = "hawait"
    /\ UNCHANGED <<module_backends, dht_alive, ready, run_i, run_exc>>
    /\ UNCHANGED <<h_ready, term_count, annVars, sdVars, emb_pc>>
    /\ UNCHANGED <<ann_joined, cfgVars, timeVars, createVars>>

\* for process in self.conn_handlers: if not process.is_alive(): process.start()
RunStartHandler ==
    /\ run_pc = "hstart"
    /\ h_state' = IF h_state[run_i] # "alive"
                  THEN [h_state EXCEPT ![run_i] = "alive"]
                  ELSE h_state
    /\ run_pc' = "hawait"
    /\ UNCHANGED <<module_backends, dht_alive, ready, run_i, run_exc>>
    /\ UNCHANGED <<h_ready, term_count, annVars, sdVars, emb_pc>>
    /\ start_count' = IF h_state[run_i] # "alive"
                      THEN [start_count EXCEPT ![run_i] = @ + 1]
                      ELSE start_count
    /\ UNCHANGED <<ann_joined, cfgVars, timeVars, createVars>>

AwaitSkipped(h) == h_state[h] = "alive"

AwaitNotFailed(h) == h_ready[h] # "failed"

\* process.ready.result() returns: the future of handler h has a result
AwaitResolved(h) == h_ready[h] = "resolved"

\* process.ready.result(), then the next iteration or the end of the loop
RunAwaitHandler ==
    /\ run_pc = "hawait"
    /\ AwaitResolved(run_i)
    /\ IF run_i < NumHandlers
       THEN run_i' = run_i + 1 /\ run_pc' = "hstart"
       ELSE run_i' = run_i /\ run_pc' = "runtime"
    /\ UNCHANGED <<module_backends, dht_alive, ready, run_exc>>
    /\ UNCHANGED <<handlerVars, annVars, sdVars, emb_pc>>
    /\ UNCHANGED <<ann_joined, start_count, cfgVars, timeVars, createVars>>

\* a statement of startup steps 1-3 raises: starting the dht, starting the
\* announcer thread, starting a handler, or the handler's future holding an
\* exception; nothing encloses these statements, the exception leaves run()
RunStartupRaises ==
    /\ \/ run_pc = "dht" /\ ~dht_alive
       \/ run_pc = "announcer" /\ module_backends # {}
       \/ run_pc = "hstart" /\ h_state[run_i] # "alive"
       \/ run_pc = "hawait" /\ h_ready[run_i] = "failed"
    /\ run_pc' = "aborted"
    /\ UNCHANGED <<module_backends, dht_alive, ready, run_i, run_exc>>
    /\ UNCHANGED <<handlerVars, annVars, sdVars, emb_pc>>
    /\ UNCHANGED <<ann_joined, start_count, cfgVars, timeVars, createVars>>

\* the handler process finishes its setup and resolves its readiness future
HandlerBecomesReady(h) ==
    /\ h_state[h] = "alive"
    /\ h_ready[h] = "pending"
    /\ h_ready' = [h_ready EXCEPT ![h] = "resolved"]
    /\ UNCHANGED <<nodeVars, h_state, term_count, annVars, sdVars, emb_pc>>
    /\ UNCHANGED <<ann_joined, start_count, cfgVars, timeVars, createVars>>

\* the handler process fails during setup and sets an exception on its future
HandlerSetupFails(h) ==
    /\ h_state[h] = "alive"
    /\ h_ready[h] = "pending"
    /\ h_ready' = [h_ready EXCEPT ![h] = "failed"]
    /\ UNCHANGED <<nodeVars, h_state, term_count, annVars, sdVars, emb_pc>>
    /\ UNCHANGED <<ann_joined, start_count, cfgVars, timeVars, createVars>>

\* ------------------------------------------------------- Server.shutdown
ShutdownStepsHandlersLate ==
    <<"clear", "annstop", "annjoin", "term", "dht", "engine">>

\* the statements of shutdown() in program order: ready.clear(); the loop over
\* conn_handlers; stop.set(); announcer join; dht.shutdown() and join;
\* runtime.shutdown()
ShutdownSteps ==
    <<"clear", "term", "annstop", "annjoin", "dht", "engine">>

\* the k-th statement, passing over the announcer block guarded by
\* 'if self.module_backends', or "returned" after the last statement
RECURSIVE StepFrom(_)
StepFrom(k) ==
    IF k > Len(ShutdownSteps) THEN "returned"
    ELSE IF ShutdownSteps[k] \in {"annstop", "annjoin"} /\ module_backends = {}
         THEN StepFrom(k + 1)
         ELSE ShutdownSteps[k]

StepIndex(s) == CHOOSE k \in 1..Len(ShutdownSteps) : ShutdownSteps[k] = s

\* the statement executed after statement s
NextStep(s) == StepFrom(StepIndex(s) + 1)

\* caller c enters shutdown()
InvokeShutdown(c) ==
    /\ sd_pc' = [sd_pc EXCEPT ![c] = StepFrom(1)]
    /\ sd_i' = [sd_i EXCEPT ![c] = 1]
    /\ sd_trace' = [sd_trace EXCEPT ![c] = <<>>]

\* caller c has executed statement 'stmt' and goes on to 'next'
Proceed(c, stmt, next) ==
    /\ sd_pc' = [sd_pc EXCEPT ![c] = next]
    /\ sd_trace' = [sd_trace EXCEPT ![c] = Append(@, stmt)]

\* the embedder calls shutdown()
EmbShutdownCall ==
    /\ sd_pc["emb"] \in {"idle", "returned", "raised"}
    /\ sd_calls < MaxShutdownCalls
    /\ InvokeShutdown("emb")
    /\ sd_calls' = sd_calls + 1
    /\ clean_start' = IF sd_calls = 0 THEN emb_pc = "ready" ELSE clean_start
    /\ UNCHANGED <<nodeVars, handlerVars, annVars, engine_down, emb_pc>>
    /\ UNCHANGED <<ann_joined, start_count, cfgVars, timeVars, createVars>>

\* self.ready.clear()
SdClearReady(c) ==
    /\ sd_pc[c] = "clear"
    /\ ready' = FALSE
    /\ Proceed(c, <<"clear", 0>>, NextStep("clear"))
    /\ UNCHANGED <<module_backends, dht_alive, run_pc, run_i, run_exc>>
    /\ UNCHANGED <<handlerVars, annVars, sd_i, sd_calls, clean_start, engine_down, emb_pc>>
    /\ UNCHANGED <<ann_joined, start_count, cfgVars, timeVars, createVars>>

SdTerminateHandlerIfAlive(c) ==
    /\ sd_pc[c] = "term"
    /\ h_state' = [h_state EXCEPT ![sd_i[c]] = Terminated(@)]
    /\ term_count' = [term_count EXCEPT
                        ![sd_i[c]] = IF h_state[sd_i[c]] = "alive" THEN @ + 1 ELSE @]
    /\ IF sd_i[c] < NumHandlers
       THEN /\ sd_i' = [sd_i EXCEPT ![c] = @ + 1]
            /\ Proceed(c, <<"term", sd_i[c]>>, "term")
       ELSE /\ sd_i' = [sd_i EXCEPT ![c] = 1]
            /\ Proceed(c, <<"term", sd_i[c]>>, NextStep("term"))
    /\ UNCHANGED <<nodeVars, h_ready, annVars, sd_calls, clean_start, engine_down, emb_pc>>
    /\ UNCHANGED <<ann_joined, start_count, cfgVars, timeVars, createVars>>

\* one iteration of the loop: process.terminate(); process.join()
SdTerminateHandler(c) ==
    /\ sd_pc[c] = "term"
    /\ h_state' = [h_state EXCEPT ![sd_i[c]] = Terminated(@)]
    /\ term_count' = [term_count EXCEPT ![sd_i[c]] = @ + 1]
    /\ IF sd_i[c] < NumHandlers
       THEN /\ sd_i' = [sd_i EXCEPT ![c] = @ + 1]
            /\ Proceed(c, <<"term", sd_i[c]>>, "term")
       ELSE /\ sd_i' = [sd_i EXCEPT ![c] = 1]
            /\ Proceed(c, <<"term", sd_i[c]>>, NextStep("term"))
    /\ UNCHANGED <<nodeVars, h_ready, annVars, sd_calls, clean_start, engine_down, emb_pc>>
    /\ UNCHANGED <<ann_joined, start_count, cfgVars, timeVars, createVars>>

\* self.dht_handler_thread.stop.set()
SdStopAnnouncer(c) ==
    /\ sd_pc[c] = "annstop"
    /\ ann_stop' = TRUE
    /\ Proceed(c, <<"annstop", 0>>, NextStep("annstop"))
    /\ UNCHANGED <<nodeVars, handlerVars, ann_pc, ann_count, ann_last>>
    /\ UNCHANGED <<sd_i, sd_calls, clean_start, engine_down, emb_pc>>
    /\ UNCHANGED <<ann_joined, start_count, cfgVars, timeVars, createVars>>

SdJoinAnnouncerNoWait(c) ==
    /\ sd_pc[c] = "annjoin"
    /\ \/ /\ ann_pc = "unstarted"
          /\ Proceed(c, <<"annjoin", 0>>, "raised")
          /\ ann_joined' = ann_joined
       \/ /\ ann_pc # "unstarted"
          /\ Proceed(c, <<"annjoin", 0>>, NextStep("annjoin"))
          /\ ann_joined' = TRUE
    /\ UNCHANGED <<nodeVars, handlerVars, annVars>>
    /\ UNCHANGED <<sd_i, sd_calls, clean_start, engine_down, emb_pc>>
    /\ UNCHANGED <<start_count, cfgVars, timeVars, createVars>>

\* self.dht_handler_thread.join(): Thread.join raises RuntimeError on a thread
\* that was never started, else it returns once the thread has ended
SdJoinAnnouncer(c) ==
    /\ sd_pc[c] = "annjoin"
    /\ \/ /\ ann_pc = "unstarted"
          /\ Proceed(c, <<"annjoin", 0>>, "raised")
          /\ ann_joined' = ann_joined
       \/ /\ ann_pc \in {"exited", "crashed"}
          /\ Proceed(c, <<"annjoin", 0>>, NextStep("annjoin"))
          /\ ann_joined' = TRUE
    /\ UNCHANGED <<nodeVars, handlerVars, annVars>>
    /\ UNCHANGED <<sd_i, sd_calls, clean_start, engine_down, emb_pc>>
    /\ UNCHANGED <<start_count, cfgVars, timeVars, createVars>>

\* self.dht.shutdown(); self.dht.join()
SdStopDht(c) ==
    /\ sd_pc[c] = "dht"
    /\ dht_alive' = FALSE
    /\ Proceed(c, <<"dht", 0>>, NextStep("dht"))
    /\ UNCHANGED <<module_backends, ready, run_pc, run_i, run_exc>>
    /\ UNCHANGED <<handlerVars, annVars, sd_i, sd_calls, clean_start, engine_down, emb_pc>>
    /\ UNCHANGED <<ann_joined, start_count, cfgVars, timeVars, createVars>>

\* self.runtime.shutdown(), the last statement
SdShutdownRuntime(c) ==
    /\ sd_pc[c] = "engine"
    /\ engine_down' = TRUE
    /\ Proceed(c, <<"engine", 0>>, NextStep("engine"))
    /\ UNCHANGED <<nodeVars, handlerVars, annVars, sd_i, sd_calls, clean_start, emb_pc>>
    /\ UNCHANGED <<ann_joined, start_count, cfgVars, timeVars, createVars>>

\* ------------------------------------- Server.run: try/finally (lines 78-81)
\* self.runtime.run() starts: the engine sets its ready event and serves
RunEnterRuntime ==
    /\ run_pc = "runtime"
    /\ ready' = TRUE
    /\ run_pc' = "serving"
    /\ UNCHANGED <<module_backends, dht_alive, run_i, run_exc>>
    /\ UNCHANGED <<handlerVars, annVars, sdVars, emb_pc>>
    /\ UNCHANGED <<ann_joined, start_count, cfgVars, timeVars, createVars>>

\* self.runtime.run() returns after runtime.shutdown(); finally: self.shutdown()
EngineReturns ==
    /\ run_pc = "serving"
    /\ engine_down
    /\ run_pc' = "finally"
    /\ run_exc' = FALSE
    /\ InvokeShutdown("run")
    /\ UNCHANGED <<module_backends, dht_alive, ready, run_i>>
    /\ UNCHANGED <<handlerVars, annVars, sd_calls, clean_start, engine_down, emb_pc>>
    /\ UNCHANGED <<ann_joined, start_count, cfgVars, timeVars, createVars>>

EngineFaultNoFinally ==
    /\ run_pc \in {"runtime", "serving"}
    /\ run_pc' = "raised"
    /\ run_exc' = TRUE
    /\ UNCHANGED <<module_backends, dht_alive, ready, run_i>>
    /\ UNCHANGED <<handlerVars, annVars, sdVars, emb_pc>>
    /\ UNCHANGED <<ann_joined, start_count, cfgVars, timeVars, createVars>>

\* self.runtime.run() raises; finally: self.shutdown()
EngineFault ==
    /\ run_pc \in {"runtime", "serving"}
    /\ run_pc' = "finally"
    /\ run_exc' = TRUE
    /\ InvokeShutdown("run")
    /\ UNCHANGED <<module_backends, dht_alive, ready, run_i>>
    /\ UNCHANGED <<handlerVars, annVars, sd_calls, clean_start, engine_down, emb_pc>>
    /\ UNCHANGED <<ann_joined, start_count, cfgVars, timeVars, createVars>>

\* the shutdown() of the finally clause has ended: run() returns, or the
\* pending exception (of the engine, or of shutdown itself) propagates
RunFinish ==
    /\ run_pc = "finally"
    /\ sd_pc["run"] \in {"returned", "raised"}
    /\ run_pc' = IF run_exc \/ sd_pc["run"] = "raised" THEN "raised" ELSE "done"
    /\ UNCHANGED <<module_backends, dht_alive, ready, run_i, run_exc>>
    /\ UNCHANGED <<handlerVars, annVars, sdVars, emb_pc>>
    /\ UNCHANGED <<ann_joined, start_count, cfgVars, timeVars, createVars>>

\* ------------------------------------------------ ModuleAnnouncerThread.run
AnnounceLongLease(o, next) ==
    /\ ann_count' = ann_count + 1
    /\ ann_last' = o
    /\ ann_pc' = IF o = "raised" THEN "crashed" ELSE next
    /\ reg_expire' = IF o = "ok" THEN now + expiration + update_period ELSE reg_expire
    /\ last_ok' = IF o = "ok" THEN now ELSE last_ok
    /\ ann_deadline' = IF o = "raised" THEN ann_deadline ELSE now + update_period
    /\ now' = now

\* one declare_active_modules call with outcome o, asking for a record that
\* expires at get_dht_time() + self.expiration; an exception ends the thread,
\* otherwise the thread goes on to stop.wait(self.update_period)
Announce(o, next) ==
    /\ ann_count' = ann_count + 1
    /\ ann_last' = o
    /\ ann_pc' = IF o = "raised" THEN "crashed" ELSE next
    /\ reg_expire' = IF o = "ok" THEN now + expiration ELSE reg_expire
    /\ last_ok' = IF o = "ok" THEN now ELSE last_ok
    /\ ann_deadline' = IF o = "raised" THEN ann_deadline ELSE now + update_period
    /\ now' = now

\* the first statement of run: the initial announcement
AnnounceFirst ==
    /\ ann_pc = "first"
    /\ \E o \in DeclareOutcomes : Announce(o, "waiting")
    /\ UNCHANGED <<nodeVars, handlerVars, ann_stop, sdVars, emb_pc>>
    /\ UNCHANGED <<ann_joined, start_count, cfgVars, createVars>>

\* self.stop.wait(self.update_period) returns False: the period has elapsed,
\* the clock is at the deadline of the wait (or past it)
AnnouncerWakes ==
    /\ ann_pc = "waiting"
    /\ ~ann_stop
    /\ ann_deadline <= MaxTime
    /\ now' = Max(now, ann_deadline)
    /\ ann_pc' = "renew"
    /\ UNCHANGED <<nodeVars, handlerVars, ann_stop, ann_count, ann_last, sdVars, emb_pc>>
    /\ UNCHANGED <<ann_deadline, reg_expire, last_ok>>
    /\ UNCHANGED <<ann_joined, start_count, cfgVars, createVars>>

\* the body of the while loop: the periodic announcement
AnnounceAgain ==
    /\ ann_pc = "renew"
    /\ \E o \in DeclareOutcomes : Announce(o, "waiting")
    /\ UNCHANGED <<nodeVars, handlerVars, ann_stop, sdVars, emb_pc>>
    /\ UNCHANGED <<ann_joined, start_count, cfgVars, createVars>>

AnnouncerExitsOnTimeout ==
    /\ ann_pc = "waiting"
    /\ ~ann_stop
    /\ now >= ann_deadline
    /\ ann_pc' = "exited"
    /\ UNCHANGED <<nodeVars, handlerVars, ann_stop, ann_count, ann_last, sdVars, emb_pc>>
    /\ UNCHANGED <<ann_joined, start_count, cfgVars, timeVars, createVars>>

\* self.stop.wait(self.update_period) returns True: the loop and the thread end
AnnouncerExits ==
    /\ ann_pc = "waiting"
    /\ ann_stop
    /\ ann_pc' = "exited"
    /\ UNCHANGED <<nodeVars, handlerVars, ann_stop, ann_count, ann_last, sdVars, emb_pc>>
    /\ UNCHANGED <<ann_joined, start_count, cfgVars, timeVars, createVars>>

\* one unit of time passes with no step of the announcer. An announcement call
\* takes no time at the clock's granularity, and a timed wait whose period has
\* elapsed returns before the clock moves on.
Tick ==
    /\ now < MaxTime
    /\ ann_pc \notin {"first", "renew"}
    /\ ~(ann_pc = "waiting" /\ ~ann_stop /\ now >= ann_deadline)
    /\ now' = now + 1
    /\ UNCHANGED <<ann_deadline, reg_expire, last_ok>>
    /\ UNCHANGED <<nodeVars, handlerVars, annVars, sdVars, emb_pc>>
    /\ UNCHANGED <<ann_joined, start_count, cfgVars, createVars>>

\* ------------------------------------------------------------------ Next
Next ==
    \/ StartCall
    \/ StartReady
    \/ StartTimeout
    \/ RunEnsureDht
    \/ RunStartAnnouncer
    \/ RunStartHandler
    \/ RunAwaitHandler
    \/ RunStartupRaises
    \/ \E h \in Handlers : HandlerBecomesReady(h)
    \/ \E h \in Handlers : HandlerSetupFails(h)
    \/ RunEnterRuntime
    \/ EngineReturns
    \/ EngineFault
    \/ RunFinish
    \/ EmbShutdownCall
    \/ \E c \in Callers : SdClearReady(c)
    \/ \E c \in Callers : SdTerminateHandler(c)
    \/ \E c \in Callers : SdStopAnnouncer(c)
    \/ \E c \in Callers : SdJoinAnnouncer(c)
    \/ \E c \in Callers : SdStopDht(c)
    \/ \E c \in Callers : SdShutdownRuntime(c)
    \/ AnnounceFirst
    \/ AnnouncerWakes
    \/ AnnounceAgain
    \/ AnnouncerExits

\* the lifecycle; the clock is read by the announcer only and moves with its
\* timed waits
Spec == Init /\ [][Next]_vars

\* the announcer thread and a thread blocked in join() are scheduled: a step
\* of theirs that stays possible is eventually taken
Fairness ==
    /\ WF_vars(AnnounceFirst)
    /\ WF_vars(AnnounceAgain)
    /\ WF_vars(AnnouncerExits)
    /\ \A c \in Callers : WF_vars(SdJoinAnnouncer(c))

FairSpec == Init /\ [][Next]_vars /\ Fairness

\* the announcer of a node whose thread has started it, the embedder's
\* shutdown() that stops and joins it, and the passing of time
LeaseNext ==
    \/ StartCall
    \/ RunEnsureDht
    \/ RunStartAnnouncer
    \/ EmbShutdownCall
    \/ \E c \in Callers : SdClearReady(c)
    \/ \E c \in Callers : SdTerminateHandler(c)
    \/ \E c \in Callers : SdStopAnnouncer(c)
    \/ \E c \in Callers : SdJoinAnnouncer(c)
    \/ \E c \in Callers : SdStopDht(c)
    \/ \E c \in Callers : SdShutdownRuntime(c)
    \/ AnnounceFirst
    \/ AnnouncerWakes
    \/ AnnounceAgain
    \/ AnnouncerExits
    \/ Tick

SpecLease == LeaseInit /\ [][LeaseNext]_vars

\* ---------------------------------------------------------- Server.create
\* the characters block_indices arguments are made of
Chars == {"0", "1", "2", ":", " ", "x"}

Digits == {"0", "1", "2"}

DigitValue(ch) == CASE ch = "0" -> 0 [] ch = "1" -> 1 [] ch = "2" -> 2

\* str.split(":")
RECURSIVE Split(_)
Split(str) ==
    IF \A k \in DOMAIN str : str[k] # ":"
    THEN <<str>>
    ELSE LET k == CHOOSE j \in DOMAIN str :
                      str[j] = ":" /\ \A i \in 1..(j - 1) : str[i] # ":"
         IN  <<SubSeq(str, 1, k - 1)>> \o Split(SubSeq(str, k + 1, Len(str)))

\* str.strip
RECURSIVE Strip(_)
Strip(str) ==
    IF str = <<>> THEN str
    ELSE IF Head(str) = " " THEN Strip(Tail(str))
    ELSE IF str[Len(str)] = " " THEN Strip(SubSeq(str, 1, Len(str) - 1))
    ELSE str

\* int(str) returns a value rather than raising ValueError
IsInt(str) == str # <<>> /\ \A k \in DOMAIN str : str[k] \in Digits

\* int(str) of a string of digits
RECURSIVE ToInt(_)
ToInt(str) ==
    IF str = <<>> THEN 0
    ELSE 10 * ToInt(SubSeq(str, 1, Len(str) - 1)) + DigitValue(str[Len(str)])

\* range(first, last) as a set
PyRange(first, last) == first..(last - 1)

\* the two-target unpacking of split(":") and the two int() calls succeed
Parses(str) ==
    /\ Len(Split(str)) = 2
    /\ IsInt(Strip(Split(str)[1]))
    /\ IsInt(Strip(Split(str)[2]))

ShardSpecGivenSome(nb, bi) == (bi # NoString) \/ (nb # None)

\* the condition of the assert of create:
\* (block_indices is None) != (num_blocks is None)
ShardSpecGiven(nb, bi) == (bi = NoString) # (nb = None)

\* create is called with a num_blocks and a block_indices argument
CreateInit ==
    /\ cr_pc = "call"
    /\ cr_num_blocks \in {None} \cup 0..MaxNumBlocks
    /\ cr_block_indices \in
          {NoString} \cup UNION {[1..n -> Chars] : n \in 0..MaxStrLen}
    /\ cr_dht = FALSE
    /\ cr_blocks = {}
    /\ cr_error = "none"
    /\ module_backends = {}
    /\ dht_alive = FALSE
    /\ ready = FALSE
    /\ run_pc = "created"
    /\ run_i = 1
    /\ run_exc = FALSE
    /\ h_state = [h \in Handlers |-> "new"]
    /\ h_ready = [h \in Handlers |-> "pending"]
    /\ ann_pc = "unstarted"
    /\ ann_stop = FALSE
    /\ engine_down = FALSE
    /\ emb_pc = "init"
    /\ sd_pc = [c \in Callers |-> "idle"]
    /\ sd_i = [c \in Callers |-> 1]
    /\ sd_trace = [c \in Callers |-> <<>>]
    /\ sd_calls = 0
    /\ clean_start = FALSE
    /\ term_count = [h \in Handlers |-> 0]
    /\ ann_count = 0
    /\ ann_last = "none"
    /\ ann_joined = FALSE
    /\ start_count = [h \in Handlers |-> 0]
    /\ update_period = 1
    /\ exp_arg = None
    /\ expiration = AnnouncerExpiration(update_period, exp_arg)
    /\ now = 0
    /\ ann_deadline = 0
    /\ reg_expire = 0
    /\ last_ok = 0

serverVars == <<ready, run_pc, run_i, run_exc, handlerVars, annVars, sdVars,
                emb_pc, ann_joined, start_count, cfgVars, timeVars>>

\* the assert on num_blocks and block_indices
CreateCheckArgs ==
    /\ cr_pc = "call"
    /\ IF ShardSpecGiven(cr_num_blocks, cr_block_indices)
       THEN cr_pc' = "dht" /\ cr_error' = cr_error
       ELSE cr_pc' = "failed" /\ cr_error' = "AssertionError"
    /\ UNCHANGED <<cr_num_blocks, cr_block_indices, cr_dht, cr_blocks>>
    /\ UNCHANGED <<module_backends, dht_alive, serverVars>>

\* dht = DHT(..., start=True); memory_cache = MemoryCache(...); torch_dtype
CreateDht ==
    /\ cr_pc = "dht"
    /\ cr_dht' = TRUE
    /\ dht_alive' = TRUE
    /\ cr_pc' = "indices"
    /\ UNCHANGED <<cr_num_blocks, cr_block_indices, cr_blocks, cr_error>>
    /\ UNCHANGED <<module_backends, serverVars>>

\* block_indices becomes range(first, last) of the parsed "first:last", or
\* range(num_blocks); a string that does not parse re-raises the exception
CreateBlockIndices ==
    /\ cr_pc = "indices"
    /\ IF cr_block_indices # NoString
       THEN IF Parses(cr_block_indices)
            THEN /\ cr_blocks' = PyRange(ToInt(Strip(Split(cr_block_indices)[1])),
                                         ToInt(Strip(Split(cr_block_indices)[2])))
                 /\ cr_pc' = "load"
                 /\ cr_error' = cr_error
            ELSE /\ cr_blocks' = cr_blocks
                 /\ cr_pc' = "failed"
                 /\ cr_error' = "ValueError"
       ELSE /\ cr_blocks' = PyRange(0, cr_num_blocks)
            /\ cr_pc' = "load"
            /\ cr_error' = cr_error
    /\ UNCHANGED <<cr_num_blocks, cr_block_indices, cr_dht>>
    /\ UNCHANGED <<module_backends, dht_alive, serverVars>>

\* one backend per block index, then return cls(dht, blocks, ...)
CreateServer ==
    /\ cr_pc = "load"
    /\ module_backends' = cr_blocks
    /\ cr_pc' = "returned"
    /\ UNCHANGED <<cr_num_blocks, cr_block_indices, cr_dht, cr_blocks, cr_error>>
    /\ UNCHANGED <<dht_alive, serverVars>>

CreateNext ==
    \/ CreateCheckArgs
    \/ CreateDht
    \/ CreateBlockIndices
    \/ CreateServer

SpecCreate == CreateInit /\ [][CreateNext]_vars

\* ---------------------------------------------------------------- helpers
Range(f) == {f[k] : k \in DOMAIN f}

\* the statements caller c's current (or latest) shutdown() has executed
Executed(c) == Range(sd_trace[c])

\* the node's thread is in startup step 3, the loop over conn_handlers
InHandlerLoop == run_pc \in {"hstart", "hawait"}

\* ---------------------------------------------------------------- claims

\* C1: readiness is false before the node is started, and whenever readiness
\* is true every handler of conn_handlers has resolved its readiness future.
C1_ReadyOnlyAfterHandlers ==
    /\ run_pc = "created" => ~ready
    /\ ready => \A h \in Handlers : h_ready[h] = "resolved"

C1_Witness ==
    /\ ready
    /\ run_pc = "serving"
    /\ \A h \in Handlers : h_ready[h] = "resolved"

C3_ShutdownOnStartupFailure ==
    run_pc = "aborted" => sd_pc["run"] # "idle"

\* C4: once the engine loop has ended, run() is inside its own shutdown()
\* invocation, and run() has returned or raised only after that invocation ran
\* through its last statement; an engine exception then leaves run().
C4_ShutdownAfterEngineEnds ==
    /\ run_pc = "finally" => sd_pc["run"] # "idle"
    /\ run_pc \in {"done", "raised"} =>
          /\ sd_pc["run"] = "returned"
          /\ <<"clear", 0>> \in Executed("run")
          /\ <<"engine", 0>> \in Executed("run")
    /\ run_pc = "done" => ~run_exc
    /\ (run_pc = "raised") => run_exc

C4_Witness ==
    /\ run_pc = "raised"
    /\ run_exc
    /\ sd_pc["run"] = "returned"

\* C5: no invocation of shutdown() raises, whoever makes it and whatever the
\* lifecycle state it is made in.
C5_ShutdownNeverRaises ==
    \A c \in Callers : sd_pc[c] # "raised"

\* C6 (as claimed): after a start that returned ready and one embedder
\* shutdown() that has returned, readiness is false, and once the engine loop
\* has returned and run() has exited terminate() was observed exactly once on
\* every handler.
C6_TerminateExactlyOnce ==
    (clean_start /\ sd_calls = 1 /\ sd_pc["emb"] = "returned") =>
        /\ ~ready
        /\ run_pc \in {"done", "raised"} => \A h \in Handlers : term_count[h] = 1

\* C6 (amended): after a start that returned ready and one embedder shutdown()
\* that has returned, readiness is false, and terminate() was observed on every
\* handler once for the embedder's shutdown() plus once more if the shutdown()
\* of run()'s finally clause has reached that handler: twice once run() exited.
C6_TerminateOncePerShutdown ==
    (clean_start /\ sd_calls = 1 /\ sd_pc["emb"] = "returned") =>
        /\ ~ready
        /\ \A h \in Handlers :
              term_count[h] = 1 + (IF <<"term", h>> \in Executed("run") THEN 1 ELSE 0)
        /\ run_pc \in {"done", "raised"} => \A h \in Handlers : term_count[h] = 2

C6_Witness ==
    /\ clean_start
    /\ sd_calls = 1
    /\ sd_pc["emb"] = "returned"
    /\ run_pc = "done"
    /\ \A h \in Handlers : term_count[h] = 2

\* C7: an invocation of shutdown() that has ended, by returning or by raising,
\* has attempted the registry-client stop and the engine shutdown, and when
\* blocks are hosted the announcer stop and join: no failing step cuts the
\* sequence short.
C7_ShutdownBestEffort ==
    \A c \in Callers :
        sd_pc[c] \in {"returned", "raised"} =>
            /\ <<"dht", 0>> \in Executed(c)
            /\ <<"engine", 0>> \in Executed(c)
            /\ \A h \in Handlers : <<"term", h>> \in Executed(c)

\* position of a statement in the teardown order the claim fixes
Rank(stmt) ==
    CASE stmt[1] = "clear" -> 0
      [] stmt[1] = "term" -> stmt[2]
      [] stmt[1] = "annstop" -> NumHandlers + 1
      [] stmt[1] = "annjoin" -> NumHandlers + 2
      [] stmt[1] = "dht" -> NumHandlers + 3
      [] stmt[1] = "engine" -> NumHandlers + 4

\* C8: within one invocation of shutdown() the statements execute in the
\* order: clear readiness, terminate and join each handler, set the
\* announcer's stop signal, join the announcer, stop the registry client, shut
\* down the engine; nothing precedes the clearing of readiness, and a later
\* statement is executed only after all the preceding ones that apply.
C8_TeardownOrder ==
    \A c \in Callers :
        /\ \A j, k \in DOMAIN sd_trace[c] :
              j < k => Rank(sd_trace[c][j]) < Rank(sd_trace[c][k])
        /\ sd_trace[c] # <<>> => sd_trace[c][1] = <<"clear", 0>>
        /\ <<"annstop", 0>> \in Executed(c) =>
              \A h \in Handlers : <<"term", h>> \in Executed(c)
        /\ <<"dht", 0>> \in Executed(c) =>
              /\ \A h \in Handlers : <<"term", h>> \in Executed(c)
              /\ module_backends # {} =>
                    {<<"annstop", 0>>, <<"annjoin", 0>>} \subseteq Executed(c)
        /\ <<"engine", 0>> \in Executed(c) => <<"dht", 0>> \in Executed(c)

C8_Witness ==
    /\ module_backends # {}
    /\ sd_pc["emb"] = "returned"
    /\ Len(sd_trace["emb"]) = NumHandlers + 5
    /\ sd_pc["run"] = "returned"
    /\ Len(sd_trace["run"]) = NumHandlers + 5

\* C9: the step in which run_in_background raises TimeoutError changes nothing
\* of the node: the position of the node's thread, the handlers, the announcer
\* and the shutdown invocations stay as they are; and as long as no shutdown()
\* has been invoked, a started handler stays started.
C9_TimeoutDoesNotAbort ==
    [][ /\ (emb_pc = "waiting" /\ emb_pc' = "timeout") =>
              UNCHANGED <<nodeVars, handlerVars, annVars, sdVars>>
        /\ (sd_calls' = 0 /\ sd_pc'["run"] = "idle") =>
              \A h \in Handlers : h_state[h] = "alive" => h_state'[h] = "alive"
      ]_vars

C9_Witness ==
    /\ emb_pc = "timeout"
    /\ run_pc = "hawait"
    /\ run_i = 2
    /\ h_state[1] = "alive"
    /\ h_ready[2] = "pending"
    /\ \A c \in Callers : sd_pc[c] = "idle"

\* C10: after an announcement attempt that raised, and while the stop signal
\* is unset, the announcer is still in its loop, waiting for or making its
\* next attempt.
C10_FailedAnnouncementNonFatal ==
    (ann_last = "raised" /\ ~ann_stop) => ann_pc \in {"waiting", "renew"}

\* the registry holds an unexpired record of the node's blocks
RecordLive == reg_expire > now

\* C11: once a join() on the announcer has returned, no step makes a further
\* announcement attempt or changes the node's record in the registry, however
\* much time passes.
C11_NoAnnouncementAfterJoin ==
    [][ ann_joined => (ann_count' = ann_count /\ reg_expire' = reg_expire) ]_vars

C11_Witness ==
    /\ ann_joined
    /\ ann_stop
    /\ ann_pc = "exited"
    /\ ann_count >= 1
    /\ now > ann_deadline

\* C12 (as claimed): whenever the registry holds an unexpired record of the
\* node's blocks, at most one update_period has passed since the latest
\* announcement that the registry stored.
C12_LiveAtMostOnePeriod ==
    RecordLive => now <= last_ok + update_period

\* C12 (amended): whenever the registry holds an unexpired record of the
\* node's blocks, less than one expiration (the explicit expiration, or by
\* default the larger of 2 x update_period and the maximal clock discrepancy)
\* has passed since the latest announcement that the registry stored, and the
\* record expires exactly one expiration after that announcement.
C12_LiveAtMostOneExpiration ==
    RecordLive =>
        /\ now < last_ok + expiration
        /\ reg_expire = last_ok + expiration
        /\ exp_arg = None =>
              now < last_ok + Max(2 * update_period, MAX_DHT_TIME_DISCREPANCY_SECONDS)
        /\ exp_arg # None => now < last_ok + exp_arg

C12_Witness ==
    /\ RecordLive
    /\ exp_arg = None
    /\ now > last_ok + update_period
    /\ ann_count >= 1

\* C13 (as claimed): while the node's thread is in the handler loop and some
\* handler's readiness future is pending, the registry holds no record of the
\* node's blocks.
C13_NoRecordWhileHandlerPending ==
    (InHandlerLoop /\ \E h \in Handlers : h_ready[h] = "pending") => reg_expire = 0

\* C13 (amended): while the readiness future of the handler that run() awaits
\* is pending, run() stays blocked on that handler and readiness stays false;
\* the announcer, started before the handler loop, publishes and renews the
\* record meanwhile.
C13_HangsWithoutReadiness ==
    [][ (run_pc = "hawait" /\ h_ready[run_i] = "pending") =>
            /\ run_pc' = "hawait"
            /\ run_i' = run_i
            /\ ~ready /\ ~ready'
            /\ module_backends # {} => ann_pc # "unstarted"
      ]_vars

C13_Witness ==
    /\ run_pc = "hawait"
    /\ h_ready[run_i] = "pending"
    /\ RecordLive
    /\ ann_count >= 2
    /\ ~ready

\* C16: with the expiration omitted the announcer's expiration is the larger
\* of 2 x update_period and the maximal clock discrepancy, so at least both;
\* an explicit expiration is used unchanged, also below update_period.
C16_DefaultExpiration ==
    /\ update_period > 0
    /\ exp_arg = None =>
          /\ expiration >= 2 * update_period
          /\ expiration >= MAX_DHT_TIME_DISCREPANCY_SECONDS
          /\ expiration \in {2 * update_period, MAX_DHT_TIME_DISCREPANCY_SECONDS}
    /\ exp_arg # None => expiration = exp_arg

C16_Witness ==
    /\ exp_arg = None
    /\ 2 * update_period < MAX_DHT_TIME_DISCREPANCY_SECONDS
    /\ expiration = MAX_DHT_TIME_DISCREPANCY_SECONDS
    /\ ann_last = "ok"
    /\ reg_expire = last_ok + MAX_DHT_TIME_DISCREPANCY_SECONDS

\* C17: an invocation of shutdown() that has set the announcer's stop signal
\* or executed the join on the announcer did so on an announcer thread that
\* had been started.
C17_StopsOnlyStartedAnnouncer ==
    \A c \in Callers :
        ({<<"annstop", 0>>, <<"annjoin", 0>>} \cap Executed(c) # {}) =>
            ann_pc # "unstarted"

\* C18: once an invocation of shutdown() has cleared readiness, readiness is
\* false.
C18_NotReadyAfterShutdown ==
    (\E c \in Callers : <<"clear", 0>> \in Executed(c)) => ~ready

\* C20: each handler is started at most once; a handler is started only after
\* the readiness future of the handler of the previous slot has resolved and
\* never ahead of the slot the loop of run() is at; past the loop every handler
\* was started once and every readiness future has resolved.
C20_HandlersInSlotOrder ==
    /\ \A h \in Handlers : start_count[h] <= 1
    /\ \A h \in Handlers :
          (h > 1 /\ start_count[h] >= 1) => h_ready[h - 1] = "resolved"
    /\ InHandlerLoop => \A h \in Handlers : h > run_i => start_count[h] = 0
    /\ run_pc \in {"runtime", "serving", "finally", "done", "raised"} =>
          \A h \in Handlers : start_count[h] = 1 /\ h_ready[h] = "resolved"

C20_Witness ==
    /\ run_pc = "hawait"
    /\ run_i = NumHandlers
    /\ \A h \in Handlers : start_count[h] = 1
    /\ \A h \in Handlers : h < NumHandlers => h_ready[h] = "resolved"
    /\ h_ready[NumHandlers] = "pending"

\* C19: the announcer thread ends normally only with the stop signal set and
\* ends otherwise only on an announcement that raised; once the stop signal is
\* set a started announcer eventually ends, whatever the outcome of its
\* announcements, and a join() on a started announcer eventually returns.
C19_AnnouncerExitsOnStop ==
    /\ [](ann_pc = "exited" => ann_stop)
    /\ [](ann_pc = "crashed" => ann_last = "raised")
    /\ (ann_stop /\ ann_pc \in {"first", "waiting", "renew"})
          ~> (ann_pc \in {"exited", "crashed"})
    /\ \A c \in Callers :
          (sd_pc[c] = "annjoin" /\ ann_pc # "unstarted") ~> (sd_pc[c] # "annjoin")

C19_Witness ==
    /\ ann_stop
    /\ ann_pc = "exited"
    /\ ann_last = "failed"
    /\ now < ann_deadline
    /\ \E c \in Callers : <<"annjoin", 0>> \in Executed(c) /\ sd_pc[c] # "raised"

\* C14: create has failed on its assert exactly when both or neither of
\* num_blocks and block_indices were given, and it then has constructed no
\* DHT and no server; with exactly one given it passes the assert.
C14_ExactlyOneShardSpec ==
    LET both == cr_num_blocks # None /\ cr_block_indices # NoString
        neither == cr_num_blocks = None /\ cr_block_indices = NoString
    IN  /\ cr_pc # "call" =>
              ((both \/ neither) <=> cr_error = "AssertionError")
        /\ cr_error = "AssertionError" =>
              /\ cr_pc = "failed"
              /\ ~cr_dht
              /\ ~dht_alive
              /\ module_backends = {}

C14_Witness ==
    /\ cr_pc = "failed"
    /\ cr_error = "AssertionError"
    /\ cr_num_blocks # None
    /\ cr_block_indices # NoString
    /\ ~cr_dht

\* C15: a create that has returned a server has given it a non-empty set of
\* hosted blocks.
C15_NonEmptyBlocks ==
    cr_pc = "returned" => module_backends # {}

====
